---- MODULE Spec2Model ----
(***************************************************************************)
(* Model of the document proofreader: the token-budgeted chunker of        *)
(* token_manager.py, the chunk orchestrator of proofreader.py and the      *)
(* review session of app.py.                                               *)
(*                                                                         *)
(* A text is a sequence of one-character strings.  Python's 0-based        *)
(* paragraph index i is the 1-based index i+1 here.  A Python dict keyed   *)
(* by paragraph index is a function whose domain is the set of keys.       *)
(***************************************************************************)
EXTENDS Integers, Sequences, FiniteSets, TLC

(* ---------------------------- bounds ---------------------------------- *)

\* longest text handed to the chunker
MaxLen == 5
\* largest max_tokens argument handed to the chunker
MaxBudget == 3
\* most paragraphs in an uploaded document
MaxParas == 2

(* ------------------------- text primitives ---------------------------- *)

Letters == {"a", "b", "c"}
Digits == {"0", "1", "2", "3", "4", "5", "6", "7", "8", "9"}
Terminators == {".", "!", "?"}
WhiteSpace == {" "}

IsSpace(c) == c \in WhiteSpace
IsLetter(c) == c \in Letters
IsDigit(c) == c \in Digits
IsPunct(c) == ~IsSpace(c) /\ ~IsLetter(c) /\ ~IsDigit(c)

RECURSIVE lstrip(_)
lstrip(t) ==
    IF t # <<>> /\ IsSpace(Head(t)) THEN lstrip(Tail(t)) ELSE t

RECURSIVE rstrip(_)
rstrip(t) ==
    IF t # <<>> /\ IsSpace(t[Len(t)]) THEN rstrip(SubSeq(t, 1, Len(t) - 1)) ELSE t

\* str.strip()
strip(t) == rstrip(lstrip(t))

\* first index >= i of t that holds a character outside class, Len(t)+1 if none
RECURSIVE SkipIn(_, _, _)
SkipIn(t, i, class) ==
    IF i <= Len(t) /\ t[i] \in class THEN SkipIn(t, i + 1, class) ELSE i

\* first index >= i of t that holds a character of class, Len(t)+1 if none
RECURSIVE SkipNotIn(_, _, _)
SkipNotIn(t, i, class) ==
    IF i <= Len(t) /\ t[i] \notin class THEN SkipNotIn(t, i + 1, class) ELSE i

\* str.split(): the maximal runs of non-whitespace, in order
RECURSIVE split(_)
split(t) ==
    LET s == lstrip(t)
        j == SkipNotIn(s, 1, WhiteSpace)
    IN  IF s = <<>> THEN <<>>
        ELSE <<SubSeq(s, 1, j - 1)>> \o split(SubSeq(s, j, Len(s)))

\* the characters of t
Range(t) == {t[k] : k \in 1..Len(t)}

\* str.startswith(prefix)
startswith(t, p) == Len(t) >= Len(p) /\ SubSeq(t, 1, Len(p)) = p

(* ------------------------------ tokens -------------------------------- *)

\* TokenManager(max_tokens=8192), and the 1000 tokens it reserves
max_tokens == 8192
reserved_tokens == 1000
max_input_tokens == max_tokens - reserved_tokens

(***************************************************************************)
(* len(self.encoding.encode(text)) for the cl100k_base encoding the        *)
(* constructor selects.  The encoding first cuts the text into pieces with *)
(* the pattern                                                             *)
(*     [^\r\n\p{L}\p{N}]?\p{L}+|\p{N}{1,3}| ?[^\s\p{L}\p{N}]+[\r\n]*       *)
(*       |\s+(?!\S)|\s+                                                    *)
(* (its alternatives for letters, digits, punctuation and blanks) and then *)
(* encodes each piece on its own, so that no token spans two pieces:       *)
(*   - a run of letters, with at most one blank or punctuation character   *)
(*     in front of it, is a piece; it costs one token per letter, a blank  *)
(*     in front merges into the first of them (as in " the") and a         *)
(*     punctuation character in front costs one more;                      *)
(*   - up to three digits are a piece of one token; no character in front  *)
(*     belongs to it;                                                      *)
(*   - a run of punctuation, with at most one blank in front, is a piece   *)
(*     of one token;                                                       *)
(*   - a run of blanks is a piece of one token; when a letter or           *)
(*     punctuation follows, the last blank of the run belongs to the piece *)
(*     that follows, and when a digit follows, the last blank of a run of  *)
(*     two or more is a piece (one token) of its own.                      *)
(* EncodeLen(t, i) is the number of tokens of t from position i on.        *)
(***************************************************************************)
RECURSIVE EncodeLen(_, _)
EncodeLen(t, i) ==
    IF i > Len(t) THEN 0
    ELSE
    LET c == t[i]
        nextLetter == i + 1 <= Len(t) /\ IsLetter(t[i + 1])
        nextPunct == i + 1 <= Len(t) /\ IsPunct(t[i + 1])
        Min(a, b) == IF a < b THEN a ELSE b
    IN  IF IsLetter(c) THEN
            LET j == SkipIn(t, i, Letters) IN (j - i) + EncodeLen(t, j)
        ELSE IF ~IsDigit(c) /\ nextLetter THEN
            LET j == SkipIn(t, i + 1, Letters)
            IN  (IF IsSpace(c) THEN 0 ELSE 1) + (j - i - 1) + EncodeLen(t, j)
        ELSE IF IsDigit(c) THEN
            1 + EncodeLen(t, Min(SkipIn(t, i, Digits), i + 3))
        ELSE IF IsPunct(c) THEN
            LET j == SkipIn(t, i, {x \in Range(t) : IsPunct(x)}) IN 1 + EncodeLen(t, j)
        ELSE IF nextPunct THEN
            LET j == SkipIn(t, i + 1, {x \in Range(t) : IsPunct(x)})
            IN  1 + EncodeLen(t, j)
        ELSE
            LET j == SkipIn(t, i, WhiteSpace)
            IN  IF j > Len(t) THEN 1
                ELSE IF j - i >= 2 THEN 1 + EncodeLen(t, j - 1)
                ELSE 1 + EncodeLen(t, j)

\* TokenManager.count_tokens
count_tokens(text) == IF text = <<>> THEN 0 ELSE EncodeLen(text, 1)

(* ------------------------------ chunker ------------------------------- *)

\* re.split(r'(?<=[.!?])\s+', text): cut at every run of blanks that follows a
\* terminator; the run itself is dropped
RECURSIVE ReSplit(_, _, _)
ReSplit(text, i, cur) ==
    IF i > Len(text) THEN <<cur>>
    ELSE IF IsSpace(text[i]) /\ i > 1 /\ text[i - 1] \in Terminators
         THEN <<cur>> \o ReSplit(text, SkipIn(text, i, WhiteSpace), <<>>)
         ELSE ReSplit(text, i + 1, Append(cur, text[i]))

\* TokenManager._split_into_sentences
_split_into_sentences(text) ==
    LET kept == SelectSeq(ReSplit(text, 1, <<>>), LAMBDA s : strip(s) # <<>>)
    IN  [k \in 1..Len(kept) |-> strip(kept[k])]

\* SplitWordsLoop without the chunks.append(word) of a word that is too long alone
RECURSIVE SplitWordsLoopDropsLongWord(_, _, _, _)
SplitWordsLoopDropsLongWord(words, chunks, current_chunk, budget) ==
    IF words = <<>> THEN
        IF current_chunk # <<>> THEN Append(chunks, current_chunk) ELSE chunks
    ELSE
    LET word == Head(words)
        test_chunk == IF current_chunk # <<>>
                      THEN current_chunk \o <<" ">> \o word ELSE word
    IN  IF count_tokens(test_chunk) > budget THEN
            IF current_chunk # <<>>
            THEN SplitWordsLoopDropsLongWord(Tail(words), Append(chunks, current_chunk),
                                             word, budget)
            ELSE SplitWordsLoopDropsLongWord(Tail(words), chunks, <<>>, budget)
        ELSE SplitWordsLoopDropsLongWord(Tail(words), chunks, test_chunk, budget)

\* the loop of _split_long_sentence over the words still to place
RECURSIVE SplitWordsLoop(_, _, _, _)
SplitWordsLoop(words, chunks, current_chunk, budget) ==
    IF words = <<>> THEN
        IF current_chunk # <<>> THEN Append(chunks, current_chunk) ELSE chunks
    ELSE
    LET word == Head(words)
        test_chunk == IF current_chunk # <<>>
                      THEN current_chunk \o <<" ">> \o word ELSE word
    IN  IF count_tokens(test_chunk) > budget THEN
            IF current_chunk # <<>>
            THEN SplitWordsLoop(Tail(words), Append(chunks, current_chunk), word, budget)
            ELSE SplitWordsLoop(Tail(words), Append(chunks, word), <<>>, budget)
        ELSE SplitWordsLoop(Tail(words), chunks, test_chunk, budget)

\* TokenManager._split_long_sentence
_split_long_sentence(sentence, budget) ==
    SplitWordsLoop(split(sentence), <<>>, <<>>, budget)

\* the loop of split_text_by_tokens over the sentences still to place
RECURSIVE SplitSentencesLoop(_, _, _, _)
SplitSentencesLoop(sentences, chunks, current_chunk, budget) ==
    IF sentences = <<>> THEN
        IF current_chunk # <<>> THEN Append(chunks, strip(current_chunk)) ELSE chunks
    ELSE
    LET sentence == Head(sentences)
        sentence_tokens == count_tokens(sentence)
        current_tokens == count_tokens(current_chunk)
        flushed == IF current_chunk # <<>>
                   THEN Append(chunks, strip(current_chunk)) ELSE chunks
    IN  IF sentence_tokens > budget THEN
            SplitSentencesLoop(Tail(sentences),
                               flushed \o _split_long_sentence(sentence, budget),
                               <<>>, budget)
        ELSE IF current_tokens + sentence_tokens > budget THEN
            SplitSentencesLoop(Tail(sentences), flushed, sentence, budget)
        ELSE
            SplitSentencesLoop(Tail(sentences), chunks,
                               IF current_chunk # <<>>
                               THEN current_chunk \o <<" ">> \o sentence
                               ELSE sentence,
                               budget)

\* split_text_by_tokens with the first test written count_tokens(text) < max_tokens
split_text_by_tokens_strict(text, budget) ==
    IF count_tokens(text) < budget THEN <<text>>
    ELSE SelectSeq(SplitSentencesLoop(_split_into_sentences(text), <<>>, <<>>, budget),
                   LAMBDA chunk : strip(chunk) # <<>>)

\* TokenManager.split_text_by_tokens
split_text_by_tokens(text, budget) ==
    IF count_tokens(text) <= budget THEN <<text>>
    ELSE SelectSeq(SplitSentencesLoop(_split_into_sentences(text), <<>>, <<>>, budget),
                   LAMBDA chunk : strip(chunk) # <<>>)

(* ---------------------------- orchestrator ---------------------------- *)

\* what one call of client.chat.completions.create can do: raise, answer with no
\* content (None), or answer with a content string
ApiOutcome(kind, content) == [kind |-> kind, content |-> content]

\* _proofread_single_chunk without the corrected_text.strip() of line 80
_proofread_single_chunk_untrimmed(text, outcome) ==
    IF outcome.kind = "raise" THEN text
    ELSE IF outcome.kind = "null" THEN text
    ELSE IF outcome.content = <<>> THEN text ELSE outcome.content

\* Proofreader._proofread_single_chunk, given what the API call does
_proofread_single_chunk(text, outcome) ==
    IF outcome.kind = "raise" THEN text
    ELSE IF outcome.kind = "null" THEN text
    ELSE LET corrected_text == IF outcome.content # <<>>
                               THEN strip(outcome.content) ELSE outcome.content
         IN  IF corrected_text = <<>> THEN text ELSE corrected_text

\* the prefixes of chunk.startswith((...)) in _rejoin_chunks; "bullet" stands for
\* the one character U+2022
ListMarkers ==
    {<<"bullet">>, <<"-">>} \cup {<<d, ".">> : d \in {"1", "2", "3", "4", "5", "6", "7", "8", "9"}}

\* RejoinLoop without the startswith test: every chunk after the first is added
\* behind a single blank
RECURSIVE RejoinLoopSpaceOnly(_, _, _)
RejoinLoopSpaceOnly(chunks, i, result) ==
    IF i > Len(chunks) THEN result
    ELSE IF i = 1 THEN RejoinLoopSpaceOnly(chunks, i + 1, chunks[i])
         ELSE RejoinLoopSpaceOnly(chunks, i + 1, result \o <<" ">> \o chunks[i])

\* the loop of _rejoin_chunks from chunk i on
RECURSIVE RejoinLoop(_, _, _)
RejoinLoop(chunks, i, result) ==
    IF i > Len(chunks) THEN result
    ELSE LET chunk == chunks[i]
         IN  IF i = 1 THEN RejoinLoop(chunks, i + 1, chunk)
             ELSE IF \E m \in ListMarkers : startswith(chunk, m)
                  THEN RejoinLoop(chunks, i + 1, result \o <<"\n", "\n">> \o chunk)
                  ELSE RejoinLoop(chunks, i + 1, result \o <<" ">> \o chunk)

\* Proofreader._rejoin_chunks
_rejoin_chunks(chunks) == IF chunks = <<>> THEN <<>> ELSE RejoinLoop(chunks, 1, <<>>)

\* Proofreader.proofread_text; outcomes[k] is what the k-th API call does and
\* budget is self.token_manager.max_input_tokens
proofread_text(text, outcomes, budget) ==
    IF text = <<>> \/ strip(text) = <<>> THEN text
    ELSE IF count_tokens(text) <= budget
         THEN _proofread_single_chunk(text, outcomes[1])
         ELSE LET chunks == split_text_by_tokens(text, budget)
              IN  _rejoin_chunks([k \in 1..Len(chunks) |->
                                     _proofread_single_chunk(chunks[k], outcomes[k])])

(* ------------------------------ session ------------------------------- *)

VARIABLES
    current_step,          \* st.session_state.current_step
    document_processor,    \* st.session_state.document_processor
    original_paragraphs,   \* st.session_state.original_paragraphs
    corrected_paragraphs,  \* st.session_state.corrected_paragraphs
    changes_approved,      \* st.session_state.changes_approved
    edited_paragraphs,     \* st.session_state.edited_paragraphs
    processing_complete,   \* st.session_state.processing_complete
    start_offered,         \* the upload step rendered its Start Proofreading button
    final_paragraphs,      \* final_paragraphs of the last run of the download step
    export_failed,         \* the last run of the download step ended in its except branch
    prev_step,             \* current_step before the last click that changed it
    split_pc,              \* chunker call: "idle", "call" or "done"
    split_text,            \* chunker call: the text argument
    split_budget,          \* chunker call: the max_tokens argument
    split_chunks,          \* chunker call: the list returned
    pr_pc,                 \* proofread_text call: "idle", "call", "loop" or "done"
    pr_text,               \* proofread_text call: the text argument
    pr_budget,             \* proofread_text call: token_manager.max_input_tokens
    pr_chunks,             \* proofread_text call: chunks
    pr_corrected,          \* proofread_text call: corrected_chunks
    pr_calls,              \* the calls of _proofread_single_chunk made so far
    pr_result,             \* proofread_text call: the value returned
    proc_pc,               \* processing run: "idle", "loop" or "done"
    proc_corrected,        \* processing run: the local list corrected_paragraphs
    proc_outcomes          \* processing run: what the rewrite of each paragraph did

sessionVars == <<current_step, document_processor, original_paragraphs,
                 corrected_paragraphs, changes_approved, edited_paragraphs,
                 processing_complete, start_offered, final_paragraphs, export_failed,
                 prev_step>>
splitVars == <<split_pc, split_text, split_budget, split_chunks>>
proofVars == <<pr_pc, pr_text, pr_budget, pr_chunks, pr_corrected, pr_calls, pr_result>>
procVars == <<proc_pc, proc_corrected, proc_outcomes>>
vars == <<sessionVars, splitVars, proofVars, procVars>>

\* a dict with no key
EmptyDict == <<>>
\* dict.get(k, default)
Get(d, k, default) == IF k \in DOMAIN d THEN d[k] ELSE default
\* d[k] = v
Put(d, k, v) == [j \in DOMAIN d \cup {k} |-> IF j = k THEN v ELSE d[j]]
\* del d[k]
Del(d, k) == [j \in DOMAIN d \ {k} |-> d[j]]

\* document_processor is None
NoProcessor == [loaded |-> FALSE, paragraphs |-> <<>>]
\* DocumentProcessor(uploaded_file) of a document with these paragraphs
DocumentProcessor(doc) == [loaded |-> TRUE, paragraphs |-> doc]

\* the paragraph texts of the documents uploaded
ParaTexts == {<<" ">>, <<"a">>, <<"a", " ">>}
\* the content strings the rewrite API answers with
RespTexts == {<<"a">>, <<"b">>}
\* the texts typed into the edit box
EditTexts == {<<"c">>}

Documents == UNION {[1..n -> ParaTexts] : n \in 0..MaxParas}
\* what the API call made for a paragraph does: it fails, or answers with a text
ApiOutcomes == {ApiOutcome("raise", <<>>)}
                   \cup {ApiOutcome("content", r) : r \in RespTexts}

Indices == DOMAIN original_paragraphs

\* the values lines 9-22 give a session that lacks the keys
SessionInit ==
    /\ document_processor = NoProcessor
    /\ original_paragraphs = <<>>
    /\ corrected_paragraphs = <<>>
    /\ changes_approved = EmptyDict
    /\ edited_paragraphs = EmptyDict
    /\ processing_complete = FALSE
    /\ current_step = "upload"
    /\ start_offered = FALSE
    /\ final_paragraphs = <<>>
    /\ export_failed = FALSE
    /\ prev_step = "none"

SplitIdle ==
    /\ split_pc = "idle"
    /\ split_text = <<>>
    /\ split_budget = max_input_tokens
    /\ split_chunks = <<>>

\* no call of proofread_text on its own is under way
ProofIdle ==
    /\ pr_pc = "idle"
    /\ pr_text = <<>>
    /\ pr_budget = max_input_tokens
    /\ pr_chunks = <<>>
    /\ pr_corrected = <<>>
    /\ pr_calls = <<>>
    /\ pr_result = <<>>

\* no run of the processing step on its own is under way
ProcIdle ==
    /\ proc_pc = "idle"
    /\ proc_corrected = <<>>
    /\ proc_outcomes = EmptyDict

Init == SessionInit /\ SplitIdle /\ ProofIdle /\ ProcIdle

(* ---- processing step (app.py 86-128) ---- *)

\* the paragraphs the loop proofreads: those that are not blank
NonBlank == {i \in Indices : strip(original_paragraphs[i]) # <<>>}

\* the loop over the paragraphs: corrected_paragraphs, given what the API calls made
\* for paragraph i do (outcomes[i][k] is the k-th call)
ProofreadAll(outcomes) ==
    [i \in Indices |->
        IF strip(original_paragraphs[i]) # <<>>
        THEN proofread_text(original_paragraphs[i], outcomes[i], max_input_tokens)
        ELSE original_paragraphs[i]]

\* InitApprovals with the texts compared after strip(), as the review loop does
InitApprovalsStripped(corrected) ==
    LET changed == {i \in Indices : strip(original_paragraphs[i]) # strip(corrected[i])}
    IN  [j \in DOMAIN changes_approved \cup changed |->
            IF j \in changed THEN TRUE ELSE changes_approved[j]]

\* "Initialize approval states": changes_approved[i] = True where the texts differ
InitApprovals(corrected) ==
    LET changed == {i \in Indices : original_paragraphs[i] # corrected[i]}
    IN  [j \in DOMAIN changes_approved \cup changed |->
            IF j \in changed THEN TRUE ELSE changes_approved[j]]

\* one run of the script in the processing step with processing_complete False
RunProcessing ==
    \E outcomes \in [NonBlank -> {<<o>> : o \in ApiOutcomes}] :
        LET corrected == ProofreadAll(outcomes)
        IN  /\ corrected_paragraphs' = corrected
            /\ processing_complete' = TRUE
            /\ changes_approved' = InitApprovals(corrected)
            /\ UNCHANGED <<document_processor, original_paragraphs, edited_paragraphs>>

(* ---- review step (app.py 138-218) ---- *)

\* the condition under which the review loop shows paragraph i
Displayed(i) ==
    /\ strip(original_paragraphs[i]) # strip(corrected_paragraphs[i])
    /\ strip(original_paragraphs[i]) # <<>>

DisplayedSet ==
    {i \in DOMAIN original_paragraphs \cap DOMAIN corrected_paragraphs : Displayed(i)}

\* one full run of the review loop: every paragraph shown gets
\* changes_approved[i] = <its checkbox>, the checkbox holding ticked[i]
RenderReview(approved, ticked) ==
    [j \in DOMAIN approved \cup DisplayedSet |->
        IF j \in DisplayedSet THEN ticked[j] ELSE approved[j]]

\* the checkboxes as the user left them: each shows its changes_approved entry
Checkboxes == [j \in DisplayedSet |-> Get(changes_approved, j, TRUE)]

(* ---- download step (app.py 221-278) ---- *)

\* FinalText with the edit taken whether or not the paragraph is approved
FinalTextEditFirst(i) ==
    IF i \in DOMAIN edited_paragraphs THEN edited_paragraphs[i]
    ELSE IF i \in DOMAIN changes_approved /\ changes_approved[i]
         THEN corrected_paragraphs[i]
         ELSE original_paragraphs[i]

\* final_text of paragraph i in the loop that builds final_paragraphs
FinalText(i) ==
    IF i \in DOMAIN changes_approved /\ changes_approved[i]
    THEN Get(edited_paragraphs, i, corrected_paragraphs[i])
    ELSE original_paragraphs[i]

\* final_paragraphs: one entry per pair of zip(original, corrected)
FinalParagraphs ==
    [i \in DOMAIN original_paragraphs \cap DOMAIN corrected_paragraphs |-> FinalText(i)]

\* the summary of the download step (lines 243-247)
approved_changes == Cardinality({i \in DOMAIN changes_approved : changes_approved[i]})
total_changes ==
    Cardinality({i \in DOMAIN original_paragraphs :
                    /\ original_paragraphs[i] # corrected_paragraphs[i]
                    /\ strip(original_paragraphs[i]) # <<>>})
manual_edits == Cardinality(DOMAIN edited_paragraphs)

(* ---- the reset of both "start over" buttons ---- *)

\* ResetSession with 'edited_paragraphs' missing from the list of keys
ResetSessionKeepsEdits ==
    /\ document_processor' = NoProcessor
    /\ original_paragraphs' = <<>>
    /\ corrected_paragraphs' = <<>>
    /\ changes_approved' = EmptyDict
    /\ edited_paragraphs' = edited_paragraphs
    /\ processing_complete' = FALSE

\* the six keys are deleted, and the rerun's lines 9-22 give them their defaults
ResetSession ==
    /\ document_processor' = NoProcessor
    /\ original_paragraphs' = <<>>
    /\ corrected_paragraphs' = <<>>
    /\ changes_approved' = EmptyDict
    /\ edited_paragraphs' = EmptyDict
    /\ processing_complete' = FALSE

(* ------------------------------ actions ------------------------------- *)

\* upload step: a readable .docx is in the uploader
UploadFile(doc) ==
    /\ UNCHANGED prev_step
    /\ current_step = "upload"
    /\ document_processor' = DocumentProcessor(doc)
    /\ original_paragraphs' = doc
    /\ start_offered' = TRUE
    /\ UNCHANGED <<current_step, corrected_paragraphs, changes_approved,
                   edited_paragraphs, processing_complete, final_paragraphs,
                   export_failed, splitVars, proofVars,
                   procVars>>

\* upload step: DocumentProcessor(uploaded_file) raises, the except branch reports it
UploadUnreadable ==
    /\ UNCHANGED prev_step
    /\ current_step = "upload"
    /\ start_offered' = FALSE
    /\ UNCHANGED <<current_step, document_processor, original_paragraphs,
                   corrected_paragraphs, changes_approved, edited_paragraphs,
                   processing_complete, final_paragraphs, export_failed, splitVars, proofVars,
                   procVars>>

\* "Start Proofreading", and the run of the processing step that follows
StartProofreading ==
    /\ prev_step' = current_step
    /\ current_step = "upload"
    /\ start_offered
    /\ current_step' = "processing"
    /\ start_offered' = FALSE
    /\ RunProcessing
    /\ UNCHANGED <<final_paragraphs, export_failed, splitVars, proofVars,
                   procVars>>

\* ReviewChanges that goes straight to the download step
ReviewChangesSkipsReview ==
    /\ prev_step' = current_step
    /\ current_step = "processing"
    /\ processing_complete
    /\ current_step' = "download"
    /\ final_paragraphs' = FinalParagraphs
    /\ UNCHANGED <<document_processor, original_paragraphs, corrected_paragraphs,
                   changes_approved, edited_paragraphs, processing_complete,
                   start_offered, export_failed, splitVars, proofVars,
                   procVars>>

\* "Review Changes", and the first run of the review loop
ReviewChanges ==
    /\ prev_step' = current_step
    /\ current_step = "processing"
    /\ processing_complete
    /\ current_step' = "review"
    /\ changes_approved' = RenderReview(changes_approved, Checkboxes)
    /\ UNCHANGED <<document_processor, original_paragraphs, corrected_paragraphs,
                   edited_paragraphs, processing_complete, start_offered,
                   final_paragraphs, export_failed, splitVars, proofVars,
                   procVars>>

\* SaveEdit that also ticks the paragraph's approval
SaveEditApproves(i, edited_text) ==
    /\ UNCHANGED prev_step
    /\ current_step = "review"
    /\ i \in DisplayedSet
    /\ edited_paragraphs' = Put(edited_paragraphs, i, edited_text)
    /\ changes_approved' = Put(RenderReview(changes_approved, Checkboxes), i, TRUE)
    /\ UNCHANGED <<current_step, document_processor, original_paragraphs,
                   corrected_paragraphs, processing_complete, start_offered,
                   final_paragraphs, export_failed, splitVars, proofVars,
                   procVars>>

\* "Save Edit" on paragraph i with edited_text in its edit box, and the rerun
SaveEdit(i, edited_text) ==
    /\ UNCHANGED prev_step
    /\ current_step = "review"
    /\ i \in DisplayedSet
    /\ edited_paragraphs' = Put(edited_paragraphs, i, edited_text)
    /\ changes_approved' = RenderReview(changes_approved, Checkboxes)
    /\ UNCHANGED <<current_step, document_processor, original_paragraphs,
                   corrected_paragraphs, processing_complete, start_offered,
                   final_paragraphs, export_failed, splitVars, proofVars,
                   procVars>>

\* "Reset to AI Version" on paragraph i, and the rerun
ResetToAI(i) ==
    /\ UNCHANGED prev_step
    /\ current_step = "review"
    /\ i \in DisplayedSet
    /\ edited_paragraphs' = IF i \in DOMAIN edited_paragraphs
                            THEN Del(edited_paragraphs, i) ELSE edited_paragraphs
    /\ changes_approved' = RenderReview(changes_approved, Checkboxes)
    /\ UNCHANGED <<current_step, document_processor, original_paragraphs,
                   corrected_paragraphs, processing_complete, start_offered,
                   final_paragraphs, export_failed, splitVars, proofVars,
                   procVars>>

\* the user flips the checkbox of paragraph i; the rerun stores every checkbox
ToggleApprove(i) ==
    /\ UNCHANGED prev_step
    /\ current_step = "review"
    /\ i \in DisplayedSet
    /\ changes_approved' =
           RenderReview(changes_approved, [Checkboxes EXCEPT ![i] = ~Checkboxes[i]])
    /\ UNCHANGED <<current_step, document_processor, original_paragraphs,
                   corrected_paragraphs, edited_paragraphs, processing_complete,
                   start_offered, final_paragraphs, export_failed, splitVars, proofVars,
                   procVars>>

\* "Back to Upload"
BackToUpload ==
    /\ prev_step' = current_step
    /\ current_step = "review"
    /\ ResetSession
    /\ current_step' = "upload"
    /\ UNCHANGED <<start_offered, final_paragraphs, export_failed, splitVars, proofVars,
                   procVars>>

\* "Reprocess Document", and the run of the processing step that follows
ReprocessDocument ==
    /\ prev_step' = current_step
    /\ current_step = "review"
    /\ current_step' = "processing"
    /\ RunProcessing
    /\ UNCHANGED <<start_offered, final_paragraphs, export_failed, splitVars, proofVars,
                   procVars>>

\* "Generate Final Document", and the run of the download step that follows:
\* create_final_document returns or raises
GenerateFinalDocument ==
    /\ prev_step' = current_step
    /\ current_step = "review"
    /\ current_step' = "download"
    /\ final_paragraphs' = FinalParagraphs
    /\ export_failed' \in BOOLEAN
    /\ UNCHANGED <<document_processor, original_paragraphs, corrected_paragraphs,
                   changes_approved, edited_paragraphs, processing_complete,
                   start_offered, splitVars, proofVars,
                   procVars>>

\* "Process Another Document", offered when the document was generated
ProcessAnotherDocument ==
    /\ prev_step' = current_step
    /\ current_step = "download"
    /\ ~export_failed
    /\ ResetSession
    /\ current_step' = "upload"
    /\ final_paragraphs' = <<>>
    /\ UNCHANGED <<start_offered, export_failed, splitVars, proofVars,
                   procVars>>

\* BackToReview with every checkbox of the review loop coming back ticked
BackToReviewTicksAll ==
    /\ prev_step' = current_step
    /\ current_step = "download"
    /\ export_failed
    /\ current_step' = "review"
    /\ changes_approved' = RenderReview(changes_approved, [j \in DisplayedSet |-> TRUE])
    /\ final_paragraphs' = <<>>
    /\ export_failed' = FALSE
    /\ UNCHANGED <<document_processor, original_paragraphs, corrected_paragraphs,
                   edited_paragraphs, processing_complete, start_offered, splitVars,
                   proofVars, procVars>>

\* "Back to Review", offered by the except branch, and the run of the review loop
BackToReview ==
    /\ prev_step' = current_step
    /\ current_step = "download"
    /\ export_failed
    /\ current_step' = "review"
    /\ changes_approved' = RenderReview(changes_approved, Checkboxes)
    /\ final_paragraphs' = <<>>
    /\ export_failed' = FALSE
    /\ UNCHANGED <<document_processor, original_paragraphs, corrected_paragraphs,
                   edited_paragraphs, processing_complete, start_offered, splitVars, proofVars,
                   procVars>>

Next ==
    \/ \E doc \in Documents : UploadFile(doc)
    \/ UploadUnreadable
    \/ StartProofreading
    \/ ReviewChanges
    \/ \E i \in Indices, t \in EditTexts : SaveEdit(i, t)
    \/ \E i \in Indices : ResetToAI(i)
    \/ \E i \in Indices : ToggleApprove(i)
    \/ BackToUpload
    \/ ReprocessDocument
    \/ GenerateFinalDocument
    \/ ProcessAnotherDocument
    \/ BackToReview

Spec == Init /\ [][Next]_vars

(* ------------------- the chunker called on its own -------------------- *)

\* every text of at most MaxLen characters over a letter, a digit, a terminator
\* and a blank
ChunkerChars == {"a", "1", ".", " "}
Texts == UNION {[1..n -> ChunkerChars] : n \in 0..MaxLen}
Budgets == 1..MaxBudget

InitSplit ==
    /\ SessionInit
    /\ ProofIdle
    /\ ProcIdle
    /\ split_pc = "call"
    /\ split_text \in Texts
    /\ split_budget \in Budgets
    /\ split_chunks = <<>>

\* split_text_by_tokens(split_text, split_budget) returns
SplitTextByTokens ==
    /\ split_pc = "call"
    /\ split_pc' = "done"
    /\ split_chunks' = split_text_by_tokens(split_text, split_budget)
    /\ UNCHANGED <<split_text, split_budget, sessionVars, proofVars, procVars>>

NextSplit == SplitTextByTokens

SpecSplit == InitSplit /\ [][NextSplit]_vars

(* ----------------- proofread_text called on its own ------------------- *)

\* what the rewrite API does in a call of _proofread_single_chunk: it raises, it
\* answers with no content, or it answers with an empty, a blank, an untrimmed or a
\* list-item content string
ProofOutcomes ==
    {ApiOutcome("raise", <<>>), ApiOutcome("null", <<>>)}
        \cup {ApiOutcome("content", r) :
                  r \in {<<>>, <<" ">>, <<" ", "b", " ">>, <<"-", "b">>}}

\* the texts proofread: at most MaxLen characters over a letter, a terminator and a
\* blank
ProofChars == {"a", ".", " "}
ProofTexts == UNION {[1..n -> ProofChars] : n \in 0..MaxLen}

\* one call of _proofread_single_chunk: its argument, what the API did, its value
Call(text, outcome) ==
    [text |-> text, outcome |-> outcome,
     returned |-> _proofread_single_chunk(text, outcome)]

InitProof ==
    /\ SessionInit
    /\ SplitIdle
    /\ ProcIdle
    /\ pr_pc = "call"
    /\ pr_text \in ProofTexts
    /\ pr_budget \in Budgets
    /\ pr_chunks = <<>>
    /\ pr_corrected = <<>>
    /\ pr_calls = <<>>
    /\ pr_result = <<>>

\* lines 24-25: a text that is empty or blank is returned as it is
ProofreadBlank ==
    /\ pr_pc = "call"
    /\ (pr_text = <<>> \/ strip(pr_text) = <<>>)
    /\ pr_result' = pr_text
    /\ pr_pc' = "done"
    /\ UNCHANGED <<pr_text, pr_budget, pr_chunks, pr_corrected, pr_calls,
                   sessionVars, splitVars, procVars>>

\* lines 28-30: a text within the budget goes to _proofread_single_chunk whole
ProofreadWhole(outcome) ==
    /\ pr_pc = "call"
    /\ ~(pr_text = <<>> \/ strip(pr_text) = <<>>)
    /\ count_tokens(pr_text) <= pr_budget
    /\ pr_calls' = Append(pr_calls, Call(pr_text, outcome))
    /\ pr_result' = _proofread_single_chunk(pr_text, outcome)
    /\ pr_pc' = "done"
    /\ UNCHANGED <<pr_text, pr_budget, pr_chunks, pr_corrected, sessionVars, splitVars, procVars>>

\* lines 33-34: a text over the budget is split, corrected_chunks = []
ProofreadSplit ==
    /\ pr_pc = "call"
    /\ ~(pr_text = <<>> \/ strip(pr_text) = <<>>)
    /\ count_tokens(pr_text) > pr_budget
    /\ pr_chunks' = split_text_by_tokens(pr_text, pr_budget)
    /\ pr_corrected' = <<>>
    /\ pr_pc' = "loop"
    /\ UNCHANGED <<pr_text, pr_budget, pr_calls, pr_result, sessionVars, splitVars, procVars>>

\* ProofreadChunk that lets a raising call end proofread_text at once, with the
\* text it was given as its value
ProofreadChunkAborts(outcome) ==
    /\ pr_pc = "loop"
    /\ Len(pr_corrected) < Len(pr_chunks)
    /\ LET chunk == pr_chunks[Len(pr_corrected) + 1]
       IN  /\ pr_calls' = Append(pr_calls, Call(chunk, outcome))
           /\ IF outcome.kind = "raise"
              THEN /\ pr_pc' = "done"
                   /\ pr_result' = pr_text
                   /\ UNCHANGED pr_corrected
              ELSE /\ pr_corrected' =
                          Append(pr_corrected, _proofread_single_chunk(chunk, outcome))
                   /\ UNCHANGED <<pr_pc, pr_result>>
    /\ UNCHANGED <<pr_text, pr_budget, pr_chunks, sessionVars, splitVars, procVars>>

\* ProofreadChunk that calls the API a second time for a chunk whose call raised
ProofreadChunkRetries(outcome) ==
    /\ pr_pc = "loop"
    /\ Len(pr_corrected) < Len(pr_chunks)
    /\ LET chunk == pr_chunks[Len(pr_corrected) + 1]
       IN  /\ pr_calls' = IF outcome.kind = "raise"
                          THEN pr_calls \o <<Call(chunk, outcome), Call(chunk, outcome)>>
                          ELSE Append(pr_calls, Call(chunk, outcome))
           /\ pr_corrected' = Append(pr_corrected, _proofread_single_chunk(chunk, outcome))
    /\ UNCHANGED <<pr_pc, pr_text, pr_budget, pr_chunks, pr_result, sessionVars, splitVars, procVars>>

\* lines 36-38: one turn of the loop, on the first chunk not yet corrected
ProofreadChunk(outcome) ==
    /\ pr_pc = "loop"
    /\ Len(pr_corrected) < Len(pr_chunks)
    /\ LET chunk == pr_chunks[Len(pr_corrected) + 1]
       IN  /\ pr_calls' = Append(pr_calls, Call(chunk, outcome))
           /\ pr_corrected' = Append(pr_corrected, _proofread_single_chunk(chunk, outcome))
    /\ UNCHANGED <<pr_pc, pr_text, pr_budget, pr_chunks, pr_result, sessionVars, splitVars, procVars>>

\* line 41: the loop is over, the corrected chunks are rejoined and returned
ProofreadRejoin ==
    /\ pr_pc = "loop"
    /\ Len(pr_corrected) = Len(pr_chunks)
    /\ pr_result' = _rejoin_chunks(pr_corrected)
    /\ pr_pc' = "done"
    /\ UNCHANGED <<pr_text, pr_budget, pr_chunks, pr_corrected, pr_calls,
                   sessionVars, splitVars, procVars>>

NextProof ==
    \/ ProofreadBlank
    \/ \E outcome \in ProofOutcomes : ProofreadWhole(outcome)
    \/ ProofreadSplit
    \/ \E outcome \in ProofOutcomes : ProofreadChunk(outcome)
    \/ ProofreadRejoin

SpecProof == InitProof /\ [][NextProof]_vars

(* ------------- the processing run, paragraph by paragraph ------------- *)

\* what the rewrite API does for a paragraph of the run: it raises, it answers with
\* no content, or it answers with a blank or a plain content string
ProcOutcomes ==
    {ApiOutcome("raise", <<>>), ApiOutcome("null", <<>>), ApiOutcome("content", <<" ">>)}
        \cup {ApiOutcome("content", r) : r \in RespTexts}

\* proofread_text(paragraph) itself raised (line 105 or 109), the except branch ran
Escaped == ApiOutcome("escaped", <<>>)

\* the script enters the processing step with processing_complete False, right
\* after "Start Proofreading" on a document that was read
InitProcessing ==
    /\ \E doc \in Documents :
          /\ document_processor = DocumentProcessor(doc)
          /\ original_paragraphs = doc
    /\ corrected_paragraphs = <<>>
    /\ changes_approved = EmptyDict
    /\ edited_paragraphs = EmptyDict
    /\ processing_complete = FALSE
    /\ current_step = "processing"
    /\ start_offered = FALSE
    /\ final_paragraphs = <<>>
    /\ export_failed = FALSE
    /\ prev_step = "upload"
    /\ SplitIdle
    /\ ProofIdle
    /\ proc_pc = "loop"
    /\ proc_corrected = <<>>
    /\ proc_outcomes = EmptyDict

\* the paragraph the loop of line 98 is at
CurrentParagraph == Len(proc_corrected) + 1

\* lines 114-115: a blank paragraph is kept as it is
KeepBlankParagraph ==
    /\ proc_pc = "loop"
    /\ CurrentParagraph <= Len(original_paragraphs)
    /\ strip(original_paragraphs[CurrentParagraph]) = <<>>
    /\ proc_corrected' = Append(proc_corrected, original_paragraphs[CurrentParagraph])
    /\ UNCHANGED <<proc_pc, proc_outcomes, sessionVars, splitVars, proofVars>>

\* lines 103-110: proofread_text(paragraph) returns and its value is appended
ProofreadParagraph(outcome) ==
    /\ proc_pc = "loop"
    /\ CurrentParagraph <= Len(original_paragraphs)
    /\ strip(original_paragraphs[CurrentParagraph]) # <<>>
    /\ proc_corrected' =
           Append(proc_corrected,
                  proofread_text(original_paragraphs[CurrentParagraph], <<outcome>>,
                                 max_input_tokens))
    /\ proc_outcomes' = Put(proc_outcomes, CurrentParagraph, outcome)
    /\ UNCHANGED <<proc_pc, sessionVars, splitVars, proofVars>>

\* ParagraphRaises without the except branch of lines 111-113: the exception ends
\* the run of the script
ParagraphRaisesUncaught ==
    /\ proc_pc = "loop"
    /\ CurrentParagraph <= Len(original_paragraphs)
    /\ strip(original_paragraphs[CurrentParagraph]) # <<>>
    /\ proc_outcomes' = Put(proc_outcomes, CurrentParagraph, Escaped)
    /\ proc_pc' = "crashed"
    /\ UNCHANGED <<proc_corrected, sessionVars, splitVars, proofVars>>

\* lines 111-113: count_tokens or proofread_text raised; the paragraph is kept
ParagraphRaises ==
    /\ proc_pc = "loop"
    /\ CurrentParagraph <= Len(original_paragraphs)
    /\ strip(original_paragraphs[CurrentParagraph]) # <<>>
    /\ proc_corrected' = Append(proc_corrected, original_paragraphs[CurrentParagraph])
    /\ proc_outcomes' = Put(proc_outcomes, CurrentParagraph, Escaped)
    /\ UNCHANGED <<proc_pc, sessionVars, splitVars, proofVars>>

\* lines 119-125: the loop is over; the results and the approvals are stored
FinishProcessing ==
    /\ proc_pc = "loop"
    /\ CurrentParagraph > Len(original_paragraphs)
    /\ corrected_paragraphs' = proc_corrected
    /\ processing_complete' = TRUE
    /\ changes_approved' = InitApprovals(proc_corrected)
    /\ proc_pc' = "done"
    /\ UNCHANGED <<current_step, document_processor, original_paragraphs,
                   edited_paragraphs, start_offered, final_paragraphs, export_failed,
                   prev_step, proc_corrected, proc_outcomes, splitVars, proofVars>>

NextProcessing ==
    \/ KeepBlankParagraph
    \/ \E outcome \in ProcOutcomes : ProofreadParagraph(outcome)
    \/ ParagraphRaises
    \/ FinishProcessing

\* the run of the script goes on until it ends
SpecProcessing == InitProcessing /\ [][NextProcessing]_vars /\ WF_vars(NextProcessing)

(* ------------------------------ claims -------------------------------- *)

\* paragraph i has an approval entry and it is True
Approved(i) == i \in DOMAIN changes_approved /\ changes_approved[i]

\* C1: in the download step the exported text of every paragraph i is its edit when
\* an edit is present and i is approved, else its corrected text when i is approved,
\* else its original text (also when i has no approval entry)
C1_ResolutionPrecedence ==
    current_step = "download" =>
        /\ DOMAIN final_paragraphs = DOMAIN original_paragraphs
        /\ \A i \in DOMAIN original_paragraphs :
              /\ (Approved(i) /\ i \in DOMAIN edited_paragraphs)
                     => final_paragraphs[i] = edited_paragraphs[i]
              /\ (Approved(i) /\ i \notin DOMAIN edited_paragraphs)
                     => final_paragraphs[i] = corrected_paragraphs[i]
              /\ ~Approved(i) => final_paragraphs[i] = original_paragraphs[i]

\* C1 witness: an export of an approved paragraph with an edit that differs from its
\* correction, next to an un-approved paragraph with an edit
C1_Witness ==
    /\ current_step = "download"
    /\ \E i, j \in DOMAIN original_paragraphs :
          /\ Approved(i) /\ i \in DOMAIN edited_paragraphs
          /\ final_paragraphs[i] = edited_paragraphs[i]
          /\ edited_paragraphs[i] # corrected_paragraphs[i]
          /\ ~Approved(j) /\ j \in DOMAIN edited_paragraphs
          /\ final_paragraphs[j] = original_paragraphs[j]
          /\ edited_paragraphs[j] # original_paragraphs[j]

\* C2 as claimed: when a processing run has completed (the first run, or the run of
\* a reprocess) the edit map is empty and the approval map holds exactly the entries
\* of that run: True for the paragraphs it changed
C2_ReprocessDiscards ==
    (current_step = "processing" /\ processing_complete) =>
        /\ edited_paragraphs = EmptyDict
        /\ DOMAIN changes_approved =
               {i \in Indices : original_paragraphs[i] # corrected_paragraphs[i]}
        /\ \A i \in DOMAIN changes_approved : changes_approved[i]

\* C3: right after Back to Upload or Process Another Document no paragraph state is
\* left: no original or corrected paragraph, no approval, no edit, no document
\* processor, and processing_complete is False
C3_ResetClearsAll ==
    [][(current_step \in {"review", "download"} /\ current_step' = "upload")
        => /\ original_paragraphs' = <<>>
           /\ corrected_paragraphs' = <<>>
           /\ changes_approved' = EmptyDict
           /\ edited_paragraphs' = EmptyDict
           /\ document_processor' = NoProcessor
           /\ processing_complete' = FALSE]_vars

\* C3 witness: the session is back at the upload step after a download, with
\* nothing left
C3_Witness ==
    /\ current_step = "upload"
    /\ prev_step = "download"
    /\ original_paragraphs = <<>>
    /\ edited_paragraphs = EmptyDict
    /\ changes_approved = EmptyDict

\* the changes of current_step the claim lists
ClaimedEdges ==
    {<<"upload", "processing">>, <<"processing", "review">>, <<"review", "download">>,
     <<"review", "processing">>, <<"review", "upload">>, <<"download", "upload">>}

\* C4 as claimed: current_step changes along the listed edges only
C4_OnlyClaimedEdges ==
    [][current_step' # current_step
           => <<current_step, current_step'>> \in ClaimedEdges]_vars

\* C4 as amended: current_step changes along the listed edges or from download back
\* to review (Back to Review, offered when the export failed), and along no other
C4_StepEdges ==
    [][current_step' # current_step
           => <<current_step, current_step'>>
                  \in ClaimedEdges \cup {<<"download", "review">>}]_vars

\* C4 witness: the session came back from download to review
C4_Witness ==
    prev_step = "download" /\ current_step = "review"

\* maps m and n agree at key j
SameEntry(m, n, j) ==
    /\ j \in DOMAIN m <=> j \in DOMAIN n
    /\ j \in DOMAIN m /\ j \in DOMAIN n => m[j] = n[j]

\* C5: Save Edit, Reset to AI Version and the approval checkbox of a paragraph i
\* leave original and corrected as they are and leave the edit and the approval of
\* every other paragraph as they are; Save Edit and Reset leave the approval of i as
\* it is, and the checkbox leaves the edit of i as it is
C5_ReviewFrame ==
    [][(current_step = "review" /\ current_step' = "review")
        => /\ original_paragraphs' = original_paragraphs
           /\ corrected_paragraphs' = corrected_paragraphs
           /\ \E i \in Indices : \A j \in Indices \ {i} :
                 /\ SameEntry(edited_paragraphs, edited_paragraphs', j)
                 /\ SameEntry(changes_approved, changes_approved', j)
           /\ edited_paragraphs' # edited_paragraphs
                 => changes_approved' = changes_approved
           /\ changes_approved' # changes_approved
                 => edited_paragraphs' = edited_paragraphs]_vars

\* C5 witness: a review in which one paragraph was un-approved after it was edited
\* and another keeps its edit and its approval
C5_Witness ==
    /\ current_step = "review"
    /\ \E i, j \in Indices :
          /\ i # j
          /\ i \in DOMAIN changes_approved /\ ~changes_approved[i]
          /\ i \in DOMAIN edited_paragraphs
          /\ Approved(j) /\ j \in DOMAIN edited_paragraphs

\* C6 as claimed: once processing has completed, an approval entry or an edit entry
\* exists for paragraph i only if corrected[i] differs from original[i] and
\* original[i] is not blank
C6_EntriesOnlyForChanges ==
    (processing_complete /\ current_step \in {"processing", "review", "download"}) =>
        \A i \in DOMAIN changes_approved \cup DOMAIN edited_paragraphs :
            /\ i \in Indices
            /\ corrected_paragraphs[i] # original_paragraphs[i]
            /\ strip(original_paragraphs[i]) # <<>>

\* C7: a text whose token count is at most max_tokens comes back as the one chunk
\* [text], the text itself
C7_NoSplitWithinBudget ==
    (split_pc = "done" /\ count_tokens(split_text) <= split_budget)
        => split_chunks = <<split_text>>

\* C7 witness: a text of several words exactly at the budget, with blanks around
\* it, came back whole
C7_Witness ==
    /\ split_pc = "done"
    /\ count_tokens(split_text) = split_budget
    /\ strip(split_text) # split_text
    /\ Len(split(split_text)) >= 2
    /\ split_chunks = <<split_text>>

\* C8 as claimed: every chunk returned is non-empty and has no blank at either end;
\* a text within the budget gives the one chunk strip(text), and the empty string
\* gives no chunk
C8_ChunksTrimmed ==
    split_pc = "done" =>
        /\ \A k \in 1..Len(split_chunks) :
               split_chunks[k] # <<>> /\ strip(split_chunks[k]) = split_chunks[k]
        /\ (split_text # <<>> /\ count_tokens(split_text) <= split_budget)
               => split_chunks = <<strip(split_text)>>
        /\ split_text = <<>> => split_chunks = <<>>

\* the words of the chunks, chunk after chunk
RECURSIVE WordsOf(_)
WordsOf(chunks) ==
    IF chunks = <<>> THEN <<>> ELSE split(Head(chunks)) \o WordsOf(Tail(chunks))

\* C9: the words of the chunks returned, in order, are the words of the text: none
\* dropped, none twice, none out of place
C9_ContentPreserved ==
    split_pc = "done" => WordsOf(split_chunks) = split(split_text)

\* C9 witness: a text over the budget was cut into several chunks, one of them a
\* single word that is over the budget alone
C9_Witness ==
    /\ split_pc = "done"
    /\ count_tokens(split_text) > split_budget
    /\ Len(split_chunks) >= 2
    /\ \E k \in 1..Len(split_chunks) :
          /\ count_tokens(split_chunks[k]) > split_budget
          /\ Len(split(split_chunks[k])) = 1
    /\ WordsOf(split_chunks) = split(split_text)

\* C10 as claimed: a text over the budget gives at least 2 chunks, and every chunk
\* is within the budget unless it is a single word that is over the budget alone
C10_ChunksWithinBudget ==
    (split_pc = "done" /\ count_tokens(split_text) > split_budget) =>
        /\ Len(split_chunks) >= 2
        /\ \A k \in 1..Len(split_chunks) :
               \/ count_tokens(split_chunks[k]) <= split_budget
               \/ Len(split(split_chunks[k])) = 1

\* the rewrite call c came back with nothing usable: the API raised, answered with no
\* content, or answered with an empty or a blank content string
NothingUsable(c) ==
    \/ c.outcome.kind \in {"raise", "null"}
    \/ c.outcome.content = <<>>
    \/ \A k \in 1..Len(c.outcome.content) : IsSpace(c.outcome.content[k])

\* C11: every call of _proofread_single_chunk returns its input unchanged when the API
\* raised or answered with null, empty or blank content, returns the trimmed answer
\* otherwise, and never returns the empty string for a non-empty input
C11_NeverLosesContent ==
    \A k \in 1..Len(pr_calls) :
        LET c == pr_calls[k]
        IN  /\ NothingUsable(c) => c.returned = c.text
            /\ ~NothingUsable(c) =>
                   /\ c.returned = strip(c.outcome.content)
                   /\ ~IsSpace(Head(c.returned))
                   /\ ~IsSpace(c.returned[Len(c.returned)])
            /\ c.text # <<>> => c.returned # <<>>

\* C11 witness: a finished proofread_text in which one call raised, one was answered
\* with blank content and one with content that had blanks to trim
C11_Witness ==
    /\ pr_pc = "done"
    /\ \E i, j, k \in 1..Len(pr_calls) :
          /\ pr_calls[i].outcome.kind = "raise" /\ pr_calls[i].returned = pr_calls[i].text
          /\ pr_calls[j].outcome = ApiOutcome("content", <<" ">>)
          /\ pr_calls[j].returned = pr_calls[j].text
          /\ pr_calls[k].outcome = ApiOutcome("content", <<" ", "b", " ">>)
          /\ pr_calls[k].returned = <<"b">>

\* the texts handed to the rewrite call so far, in the order of the calls
CalledTexts == [k \in 1..Len(pr_calls) |-> pr_calls[k].text]

\* C12: proofread_text makes no rewrite call for an empty or blank text and returns it
\* unchanged; makes exactly one call, on the whole text, when the text is within the
\* budget and returns that call's value; otherwise calls the chunks of the chunker one
\* by one in chunk order, each exactly once
C12_CallPattern ==
    LET blank == pr_text = <<>> \/ strip(pr_text) = <<>>
        fits == count_tokens(pr_text) <= pr_budget
        chunks == split_text_by_tokens(pr_text, pr_budget)
    IN  /\ blank =>
              /\ CalledTexts = <<>>
              /\ pr_pc = "done" => pr_result = pr_text
        /\ (~blank /\ fits) =>
              /\ pr_pc # "done" => CalledTexts = <<>>
              /\ pr_pc = "done" =>
                     /\ CalledTexts = <<pr_text>>
                     /\ pr_result = pr_calls[1].returned
        /\ (~blank /\ ~fits) =>
              /\ Len(CalledTexts) <= Len(chunks)
              /\ CalledTexts = SubSeq(chunks, 1, Len(CalledTexts))
              /\ pr_pc = "done" => CalledTexts = chunks

\* C12 witness: a finished proofread_text of a text cut into three chunks, not all
\* the same, each called once in chunk order though the call of the first one raised
C12_Witness ==
    /\ pr_pc = "done"
    /\ Len(pr_chunks) = 3
    /\ pr_chunks[1] # pr_chunks[2]
    /\ CalledTexts = pr_chunks
    /\ pr_calls[1].outcome.kind = "raise"

\* the text begins with a bullet, a hyphen, or one of "1." to "9."
BeginsWithListMarker(t) ==
    \/ Len(t) >= 1 /\ t[1] \in {"bullet", "-"}
    \/ Len(t) >= 2 /\ t[1] \in (Digits \ {"0"}) /\ t[2] = "."

\* a paragraph break in front of a list item, a single blank in front of anything else
SeparatorBefore(t) == IF BeginsWithListMarker(t) THEN <<"\n", "\n">> ELSE <<" ">>

\* the first n results, each after the first behind its separator
RECURSIVE JoinedUpTo(_, _)
JoinedUpTo(results, n) ==
    IF n = 1 THEN results[1]
    ELSE JoinedUpTo(results, n - 1) \o SeparatorBefore(results[n]) \o results[n]

RECURSIVE TotalLen(_)
TotalLen(seqs) == IF seqs = <<>> THEN 0 ELSE Len(Head(seqs)) + TotalLen(Tail(seqs))

ChunkFailed(k) == pr_calls[k].outcome.kind = "raise"

\* pr_result from position p on is the segments k..n, a separator between neighbours
RECURSIVE SegmentsFrom(_, _, _)
SegmentsFrom(segments, k, p) ==
    LET seg == segments[k]
        q == p + Len(seg)
    IN  /\ SubSeq(pr_result, p, q - 1) = seg
        /\ IF k = Len(segments) THEN q = Len(pr_result) + 1
           ELSE \E sep \in {<<" ">>, <<"\n", "\n">>} :
                    /\ SubSeq(pr_result, q, q + Len(sep) - 1) = sep
                    /\ SegmentsFrom(segments, k + 1, q + Len(sep))

\* C14: when a text is cut into n chunks, a failed rewrite call stops nothing: the
\* loop never ends before all n calls are made, the value returned is n segments in
\* chunk order, and the segment of every chunk whose call failed is the chunk itself
C14_SoftFailIsolation ==
    /\ (pr_pc = "loop" /\ Len(pr_calls) < Len(pr_chunks)) => Len(pr_corrected) = Len(pr_calls)
    /\ (pr_pc = "done" /\ pr_chunks # <<>>) =>
          /\ Len(pr_calls) = Len(pr_chunks)
          /\ Len(pr_corrected) = Len(pr_chunks)
          /\ \A k \in 1..Len(pr_chunks) :
                /\ pr_calls[k].text = pr_chunks[k]
                /\ ChunkFailed(k) => pr_corrected[k] = pr_chunks[k]
                /\ ~ChunkFailed(k) => pr_corrected[k] = pr_calls[k].returned
          /\ SegmentsFrom(pr_corrected, 1, 1)

\* C14 witness: three chunks, the calls of the first two failed and the third was
\* rewritten; the value returned holds the first two chunks as they were
C14_Witness ==
    /\ pr_pc = "done"
    /\ Len(pr_chunks) = 3
    /\ ChunkFailed(1) /\ ChunkFailed(2) /\ ~ChunkFailed(3)
    /\ pr_corrected[1] = pr_chunks[1]
    /\ pr_corrected[2] = pr_chunks[2]
    /\ pr_corrected[3] = <<"b">>
    /\ SegmentsFrom(pr_corrected, 1, 1)

\* the rewrite of paragraph i was attempted and failed
RewriteFailed(i) ==
    i \in DOMAIN proc_outcomes /\ proc_outcomes[i].kind \in {"raise", "escaped"}

\* what a completed run leaves: one corrected text per paragraph, in document order;
\* a blank paragraph and a paragraph whose rewrite failed as they were; every other
\* paragraph rewritten, whatever happened to the paragraphs before it
AbsorbedLocally ==
    /\ Len(corrected_paragraphs) = Len(original_paragraphs)
    /\ \A i \in DOMAIN original_paragraphs :
          IF strip(original_paragraphs[i]) = <<>>
          THEN /\ corrected_paragraphs[i] = original_paragraphs[i]
               /\ i \notin DOMAIN proc_outcomes
          ELSE /\ i \in DOMAIN proc_outcomes
               /\ RewriteFailed(i) => corrected_paragraphs[i] = original_paragraphs[i]
               /\ (proc_outcomes[i].kind = "content" /\ strip(proc_outcomes[i].content) # <<>>)
                      => corrected_paragraphs[i] = strip(proc_outcomes[i].content)

\* C15: a run of the processing step always ends with processing_complete set,
\* whichever rewrites fail, and then corrected_paragraphs has one text per paragraph
\* in document order, blank paragraphs and failed ones equal to their originals, and
\* the paragraphs after a failed one processed all the same
C15_ProcessingCompletes ==
    /\ [](processing_complete => AbsorbedLocally)
    /\ <>(processing_complete /\ AbsorbedLocally)

\* C15 witness: a completed run on two paragraphs; the rewrite of the first failed
\* and it is kept, the second was rewritten
C15_Witness ==
    /\ proc_pc = "done"
    /\ processing_complete
    /\ Len(original_paragraphs) = 2
    /\ RewriteFailed(1)
    /\ corrected_paragraphs[1] = original_paragraphs[1]
    /\ 2 \in DOMAIN proc_outcomes /\ ~RewriteFailed(2)
    /\ corrected_paragraphs[2] # original_paragraphs[2]

\* the review state: the paragraphs, their corrections, the approvals and the edits
ReviewState ==
    <<original_paragraphs, corrected_paragraphs, changes_approved, edited_paragraphs>>

\* C16: the step from review into download keeps the original paragraphs, the
\* corrected paragraphs, the approval map and the edit map, and so does the step back
\* from a download that failed to review: the user is back in review with the review
\* state as it was left
C16_BackToReviewKeepsState ==
    [][/\ (current_step = "review" /\ current_step' = "download") => UNCHANGED ReviewState
       /\ (current_step = "download" /\ current_step' = "review") =>
              /\ export_failed
              /\ UNCHANGED ReviewState
       /\ (current_step = "download" /\ current_step' = "download") => UNCHANGED ReviewState
      ]_vars

\* C16 witness: back in review from a failed download, with an un-approved paragraph
\* and a saved edit still in place
C16_Witness ==
    /\ current_step = "review"
    /\ prev_step = "download"
    /\ \E i \in DOMAIN changes_approved : ~changes_approved[i]
    /\ edited_paragraphs # EmptyDict

\* this step is a processing run that completes
RunCompletes == current_step # "processing" /\ current_step' = "processing"

\* C17: a processing run that completes leaves the approval flag True for every
\* paragraph whose corrected text differs from its non-blank original, creates
\* approval entries for such paragraphs only, and leaves the entry of any other
\* paragraph as it was
C17_DefaultApproved ==
    [][RunCompletes =>
          /\ processing_complete'
          /\ \A i \in DOMAIN original_paragraphs' :
                IF /\ corrected_paragraphs'[i] # original_paragraphs'[i]
                   /\ strip(original_paragraphs'[i]) # <<>>
                THEN i \in DOMAIN changes_approved' /\ changes_approved'[i] = TRUE
                ELSE /\ i \in DOMAIN changes_approved' => i \in DOMAIN changes_approved
                     /\ i \in DOMAIN changes_approved =>
                            /\ i \in DOMAIN changes_approved'
                            /\ changes_approved'[i] = changes_approved[i]
          /\ DOMAIN changes_approved \subseteq DOMAIN changes_approved'
      ]_vars

\* C17 witness: a run just completed that changed one paragraph, approved by default,
\* and left another as it was, without an approval entry; the changed one differs
\* from its original by trailing blanks only
C17_Witness ==
    /\ current_step = "processing"
    /\ processing_complete
    /\ \E i, j \in DOMAIN original_paragraphs :
          /\ corrected_paragraphs[i] # original_paragraphs[i]
          /\ strip(corrected_paragraphs[i]) = strip(original_paragraphs[i])
          /\ i \in DOMAIN changes_approved /\ changes_approved[i]
          /\ corrected_paragraphs[j] = original_paragraphs[j]
          /\ j \notin DOMAIN changes_approved

\* C18 as claimed: in the download step every paragraph whose exported text differs
\* from its original met the display condition of the review loop (original and
\* corrected differ after strip() and the original is not blank), so that the user
\* saw its checkbox
C18_ExportedWasReviewable ==
    current_step = "download" =>
        \A i \in DOMAIN final_paragraphs :
            final_paragraphs[i] # original_paragraphs[i] => Displayed(i)

\* C19 as claimed: whenever the download step shows its summary, the number of
\* approved changes is at most the number of suggested changes, and the number of
\* manual edits is at most the number of approved changes
C19_SummaryCounts ==
    (current_step = "download" /\ ~export_failed) =>
        /\ approved_changes <= total_changes
        /\ manual_edits <= approved_changes

====
